---- MODULE Spec2Model ----
(***************************************************************************)
(* The cleaning pipeline of src/data_cleaning.py as a state machine.       *)
(*                                                                         *)
(* A table (pandas DataFrame) is a sequence of rows; a row is a function   *)
(* from column names to cells.  A cell is a number, a text or the missing  *)
(* marker (NaN).  Texts are sequences of one-character strings so that     *)
(* strip and title are computed character by character.                    *)
(*                                                                         *)
(* Numbers are integers.  The input values are drawn from even integers,   *)
(* so the mean of the two middle values (the median of an even count) is   *)
(* an integer; quartiles are carried scaled by 4 and IQR bounds scaled by  *)
(* 8, which is exact for linear interpolation.                             *)
(***************************************************************************)
EXTENDS Integers, Sequences, FiniteSets, TLC

VARIABLES
    fn,                       \* the cleaning function that is running
    pc,                       \* its next statement
    run,                      \* 1: first invocation, 2: re-invocation on its own output
    raw,                      \* the table pd.read_csv returned
    columns,                  \* df.columns
    df,                       \* df / df_cleaned
    numeric_cols,             \* select_dtypes(include=[np.number]).columns
    categorical_cols,         \* select_dtypes(include=['object']).columns
    medians,                  \* df[numeric_cols].median()
    original_before_outliers, \* len(df) at the start of the outlier loop
    col_i,                    \* position of the outlier loop in numeric_cols
    outlier_report,           \* what line 276 prints: rows removed, percentage
    invalid_count,            \* rows with W + L != GP (advanced team stats)
    csv_out,                  \* the file written under cleaned_csv/
    err,                      \* the exception that ended the function, or "none"
    stage_in,                 \* history: df when the last executed statement began
    outlier_in,               \* history: df when the outlier loop began
    first_out,                \* history: csv_out of the first invocation
    trace,                    \* history: the kinds of stage executed, in order
    df_obj,                   \* identity of the DataFrame object bound to df
    stats_mode,               \* stats_dict['Mode'] of calculate_descriptive_stats
    insights,                 \* insights of calculate_descriptive_stats
    correlation,              \* correlation['W'] of analyze_team_performance
    key_correlations,         \* what its loop prints for each metric
    written,                  \* the functions of clean_data that have returned
    height,                   \* the argument h of height_to_inches
    height_in,                \* what height_to_inches returned
    passed_in                 \* history: what the object the last executed
                              \* statement was given holds now

vars == <<fn, pc, run, raw, columns, df, numeric_cols, categorical_cols,
          medians, original_before_outliers, col_i, outlier_report,
          invalid_count, csv_out, err, stage_in, outlier_in, first_out, trace,
          df_obj, stats_mode, insights, correlation, key_correlations,
          written, height, height_in, passed_in>>

-----------------------------------------------------------------------------
(* Bounds of the model.                                                     *)

MaxRows == 3

MaxOutlierRows == 5

MaxStatsRows == 4

MaxHeightLen == 5

-----------------------------------------------------------------------------
(* Cells.                                                                   *)

NaN == [k |-> "nan", n |-> 0, s |-> <<>>]

Num(x) == [k |-> "num", n |-> x, s |-> <<>>]

Str(t) == [k |-> "str", n |-> 0, s |-> t]

IsNa(c) == c.k = "nan"

IsNum(c) == c.k = "num"

-----------------------------------------------------------------------------
(* Text: str.strip(), str.title(), str.upper().                             *)

LowerCase == <<"a", "b", "i", "k", "l", "n", "o", "u", "w", "x">>

UpperCase == <<"A", "B", "I", "K", "L", "N", "O", "U", "W", "X">>

IsLower(c) == \E i \in 1..Len(LowerCase) : LowerCase[i] = c

IsUpper(c) == \E i \in 1..Len(UpperCase) : UpperCase[i] = c

IsLetter(c) == IsLower(c) \/ IsUpper(c)

ToUpper(c) ==
    IF IsLower(c)
    THEN UpperCase[CHOOSE i \in 1..Len(LowerCase) : LowerCase[i] = c]
    ELSE c

ToLower(c) ==
    IF IsUpper(c)
    THEN LowerCase[CHOOSE i \in 1..Len(UpperCase) : UpperCase[i] = c]
    ELSE c

IsSpace(c) == c = " "

RECURSIVE LStrip(_)
LStrip(t) ==
    IF t # <<>> /\ IsSpace(Head(t)) THEN LStrip(Tail(t)) ELSE t

RECURSIVE RStrip(_)
RStrip(t) ==
    IF t # <<>> /\ IsSpace(t[Len(t)])
    THEN RStrip(SubSeq(t, 1, Len(t) - 1))
    ELSE t

StrStrip(t) == RStrip(LStrip(t))

\* Python's str.swapcase(): every letter changes case.
StrSwapCase(t) ==
    [i \in 1..Len(t) |-> IF IsUpper(t[i]) THEN ToLower(t[i]) ELSE ToUpper(t[i])]

\* Python's str.title(): a letter is upper-cased when it starts a run of
\* letters and lower-cased otherwise.
StrTitle(t) ==
    [i \in 1..Len(t) |->
        IF i = 1 \/ ~IsLetter(t[i - 1]) THEN ToUpper(t[i]) ELSE ToLower(t[i])]

\* .str.strip().str.title() on a cell of an object column: a missing cell
\* stays missing, and a number read from the file is its digits, which strip
\* and title leave as they are.
StripTitleCell(c) == IF c.k = "str" THEN Str(StrTitle(StrStrip(c.s))) ELSE c

StripCell(c) == IF c.k = "str" THEN Str(StrStrip(c.s)) ELSE c

Unknown == Str(<<"U", "n", "k", "n", "o", "w", "n">>)

-----------------------------------------------------------------------------
(* Tables.                                                                  *)

Range(f) == {f[i] : i \in DOMAIN f}

Column(t, c) == [i \in 1..Len(t) |-> t[i][c]]

\* df[col] = df[col].str.strip().str.title() for every col of cs.
StripTitleCols(t, cs) ==
    [i \in 1..Len(t) |->
        [c \in DOMAIN t[i] |->
            IF c \in cs THEN StripTitleCell(t[i][c]) ELSE t[i][c]]]

\* A number dtype whenever no cell holds a text, rows or no rows.
IsNumberByValues(t, c) == \A i \in 1..Len(t) : t[i][c].k # "str"

\* pd.read_csv's dtype of a column: a number dtype when the file has rows and
\* every cell that is not empty parses as a number (a column of empty cells
\* is float64); object otherwise, and for a file with no rows.
IsNumberDtype(t, c) ==
    /\ Len(t) > 0
    /\ \A i \in 1..Len(t) : t[i][c].k # "str"

SelectDtypes(t, order, number) ==
    SelectSeq(order, LAMBDA c : IsNumberDtype(t, c) = number)

\* The non-missing numbers of a column, in row order.
Values(t, c) ==
    LET cells == SelectSeq(Column(t, c), IsNum)
    IN  [i \in 1..Len(cells) |-> cells[i].n]

\* The i-th smallest (i from 0) of a non-empty sequence of integers.
Sorted(vals, i) ==
    CHOOSE v \in Range(vals) :
        /\ Cardinality({j \in 1..Len(vals) : vals[j] < v}) <= i
        /\ Cardinality({j \in 1..Len(vals) : vals[j] <= v}) > i

\* Series.median(): NaN are skipped; NaN when nothing is left.
Median(t, c) ==
    LET vals == Values(t, c)
        n == Len(vals)
    IN  IF n = 0 THEN NaN
        ELSE Num((Sorted(vals, (n - 1) \div 2) + Sorted(vals, n \div 2)) \div 2)

\* fillna(value): a missing cell takes the value; a NaN value fills nothing.
FillNa(c, value) == IF IsNa(c) THEN value ELSE c

\* df[cs] = df[cs].fillna(value), value a cell for each column of cs.
FillCols(t, cs, value) ==
    [i \in 1..Len(t) |->
        [c \in DOMAIN t[i] |->
            IF c \in cs THEN FillNa(t[i][c], value[c]) ELSE t[i][c]]]

\* drop_duplicates(keep='last'): a row is dropped when an equal row follows.
DropDuplicatesKeepLast(t) ==
    LET keep == SelectSeq([i \in 1..Len(t) |-> i],
                          LAMBDA i : \A j \in (i + 1)..Len(t) : t[j] # t[i])
    IN  [k \in 1..Len(keep) |-> t[keep[k]]]

\* DataFrame.drop_duplicates(): keep='first'; a row is dropped when an equal
\* row came before it.
RECURSIVE DropDuplicatesFrom(_, _, _)
DropDuplicatesFrom(t, seen, acc) ==
    IF t = <<>> THEN acc
    ELSE IF Head(t) \in seen
         THEN DropDuplicatesFrom(Tail(t), seen, acc)
         ELSE DropDuplicatesFrom(Tail(t), seen \cup {Head(t)}, Append(acc, Head(t)))

DropDuplicates(t) == DropDuplicatesFrom(t, {}, <<>>)

\* Quartiles as the medians of the lower and the upper half of the sorted
\* values (the middle value left out of both when the count is odd), times 4.
Quantile4Hinges(vals, num) ==
    LET n == Len(vals)
        h == n \div 2
        base == IF num = 1 THEN 0 ELSE n - h
    IN  IF n < 2 THEN 4 * Sorted(vals, 0)
        ELSE 2 * (Sorted(vals, base + (h - 1) \div 2)
                  + Sorted(vals, base + h \div 2))

\* Series.quantile(q) for q = num/4 with linear interpolation, times 4;
\* defined for a non-empty sequence.
Quantile4(vals, num) ==
    LET p == num * (Len(vals) - 1)
        i == p \div 4
        r == p % 4
    IN  IF r = 0 THEN 4 * Sorted(vals, i)
        ELSE 4 * Sorted(vals, i) + r * (Sorted(vals, i + 1) - Sorted(vals, i))

\* lower_bound and upper_bound of lines 269-273, times 8.
LowerBound8(vals) ==
    2 * Quantile4(vals, 1) - 3 * (Quantile4(vals, 3) - Quantile4(vals, 1))

UpperBound8(vals) ==
    2 * Quantile4(vals, 3) + 3 * (Quantile4(vals, 3) - Quantile4(vals, 1))

-----------------------------------------------------------------------------
(* Files.                                                                   *)

\* pd.read_csv of a file DataFrame.to_csv wrote: a missing cell is written as
\* an empty field, and an empty field or the text "nan" is read as missing.
NaTexts == {<<>>, <<"n", "a", "n">>}

ReadBackCell(c) == IF c.k = "str" /\ c.s \in NaTexts THEN NaN ELSE c

ReadBack(t) ==
    [i \in 1..Len(t) |-> [c \in DOMAIN t[i] |-> ReadBackCell(t[i][c])]]

-----------------------------------------------------------------------------
(* The inputs.                                                              *)

Al == <<"a", "l">>

AlRaw == <<" ", "A", "l">>

Bo == <<"b", "o">>

Li == <<"l", "i">>

Tables(rows, n) == UNION {[1..k -> rows] : k \in 0..n}

\* uncleaned_csv/ACTIVE_PLAYERS.csv: the columns the function names, and two
\* of the number columns of the player records, in file order.
ActiveColumns == <<"first_name", "last_name", "weight", "draft_year">>

ActiveRows ==
    [first_name : {NaN, Str(Al), Str(AlRaw)}, last_name : {Str(Li)},
     weight : {NaN, Num(2), Num(8)}, draft_year : {Num(0)}]
    \cup
    [first_name : {Str(Al)}, last_name : {NaN},
     weight : {Num(8)}, draft_year : {NaN, Num(0)}]

\* Tables with every name present, for the outlier loop over two columns.
OutlierRows ==
    [first_name : {Str(Al), Str(AlRaw), Str(Bo)}, last_name : {Str(Li)},
     weight : {Num(0), Num(2)}, draft_year : {Num(0), Num(2)}]

\* Files whose only number column is weight: five players, the last one with
\* a weight far from the others or close to them.
WeightColumns == <<"first_name", "last_name", "weight">>

WeightLists ==
    {<<200, 205, 210, 215, 600>>, <<200, 205, 210, 215, 220>>,
     <<600, 215, 210, 205, 200>>}

WeightTables ==
    {[i \in 1..Len(w) |->
        [first_name |-> Str(Al), last_name |-> Str(Li), weight |-> Num(w[i])]] :
     w \in WeightLists}

\* uncleaned_csv/nba_teams.csv, and a file without the full_name column.
TeamsColumns == <<"full_name", "city">>

TeamsRows == [full_name : {NaN, Str(Al), Str(AlRaw)}, city : {NaN, Str(Li)}]

CityColumns == <<"city">>

CityRows == [city : {NaN, Str(Li)}]

\* uncleaned_csv/advanced_team_stats.csv: MIN is a column the function does
\* not keep; "x" is a cell that is not a number.
AdvancedColumns == <<"TEAM_NAME", "GP", "W", "L", "MIN">>

AdvancedRows ==
    [TEAM_NAME : {Str(AlRaw)}, GP : {NaN, Str(<<"x">>), Num(0), Num(10)},
     W : {Num(6), Num(7)}, L : {Num(4)}, MIN : {Num(48)}]
    \cup
    [TEAM_NAME : {NaN}, GP : {Num(10)}, W : {Num(6)}, L : {Num(4)},
     MIN : {Num(48)}]
    \cup
    [TEAM_NAME : {Str(AlRaw)}, GP : {Num(10)}, W : {Str(<<"x">>)}, L : {NaN},
     MIN : {Num(48)}]

\* uncleaned_csv/league_standings.csv.  WinPCT is carried in tenths.
StandingsColumns == <<"TeamCity", "ClinchIndicator", "WinPCT", "PointsPG">>

StandingsRows ==
    [TeamCity : {NaN, Str(AlRaw)}, ClinchIndicator : {NaN},
     WinPCT : {NaN, Num(5), Num(12)}, PointsPG : {Num(100)}]
    \cup
    [TeamCity : {Str(AlRaw)}, ClinchIndicator : {Str(<<"x">>)},
     WinPCT : {Num(5)}, PointsPG : {NaN, Num(60), Num(160)}]

\* The table analyze_active_players passes to calculate_descriptive_stats,
\* with numeric_cols = ['height_in', 'weight'].
StatsColumns == <<"height_in", "weight">>

StatsRows == [height_in : {Num(0), Num(2)}, weight : {NaN, Num(0), Num(8)}]

\* Tables of 25 rows for the statistics: weight has thirteen 0 and twelve
\* values far from 0 on both sides (or eight and four), in mixed row order.
StatsWeightLists ==
    {<<101, 0, -101, 0, 102, 0, -102, 0, 103, 0, -103, 0, 104, 0, -104, 0,
       105, 0, -105, 0, 106, 0, -106, 0, 0>>,
     <<0, 0, 101, 0, -101, 0, 0, 102, 0, -102, 0, 0, 0, 0, 0, 0, 0, 0, 0, 0,
       0, 0, 0, 0, 0>>}

StatsScenarioTables ==
    {[i \in 1..Len(w) |-> [height_in |-> Num(2), weight |-> Num(w[i])]] :
     w \in StatsWeightLists}

\* cleaned_csv/advanced_team_stats_CLEANED.csv as analyze_team_performance
\* reads it: every team has played 10 games; DEF_RATING is the same for all.
PerformanceColumns == <<"GP", "W", "OFF_RATING", "DEF_RATING", "NET_RATING">>

PerformanceRows ==
    [GP : {Num(10)}, W : {Num(2), Num(4)},
     OFF_RATING : {Num(0), Num(2), Num(4)}, DEF_RATING : {Num(2)},
     NET_RATING : {Num(-2), Num(0)}]

NoReport == [removed |-> 0, pct10 |-> 0]

\* clean_ACTIVE_PLAYERS with the text formatting moved before drop_duplicates.
ActiveProgramFormatFirst ==
    <<"a_dropna", "a_fill_numeric", "a_fill_categorical", "a_format",
      "a_drop_duplicates", "a_outliers", "a_outlier_col", "a_save">>

\* The statements of each function, in the order of its lines.
ActiveProgram ==
    <<"a_dropna", "a_fill_numeric", "a_fill_categorical", "a_drop_duplicates",
      "a_outliers", "a_outlier_col", "a_format", "a_save">>

TeamsProgram == <<"t_fillna", "t_drop_duplicates", "t_format", "t_save">>

\* The two rules applied before the coercion and the dropna.
AdvancedProgramRulesFirst ==
    <<"v_select", "v_strip", "v_filter_gp", "v_check_wl", "v_to_numeric",
      "v_dropna", "v_save", "v_second">>

AdvancedProgram ==
    <<"v_select", "v_strip", "v_to_numeric", "v_dropna", "v_filter_gp",
      "v_check_wl", "v_save", "v_second">>

StandingsProgram ==
    <<"s_fill_clinch", "s_fill_numeric", "s_fill_text", "s_format",
      "s_winpct", "s_pointspg", "s_save">>

\* src/descriptive_stats.py, calculate_descriptive_stats: the statistics
\* (lines 27-41), the outlier loop (45-65), the return (67).
StatsProgram == <<"d_stats", "d_outlier_col", "d_return">>

\* src/descriptive_stats.py, analyze_team_performance: the call of
\* calculate_descriptive_stats (line 148), WIN_PCT (151), the correlation
\* matrix (158), the loop over its W column (165-169).
PerformanceProgram == <<"p_stats", "p_win_pct", "p_corr", "p_classify">>

HeightProgram == <<"h_isna", "h_isinstance", "h_dash", "h_split">>

Program(f) ==
    CASE f = "clean_ACTIVE_PLAYERS" -> ActiveProgram
      [] f = "clean_get_all_teams" -> TeamsProgram
      [] f = "clean_advanced_team_stats" -> AdvancedProgram
      [] f = "clean_league_standings" -> StandingsProgram
      [] f = "calculate_descriptive_stats" -> StatsProgram
      [] f = "analyze_team_performance" -> PerformanceProgram
      [] f = "height_to_inches" -> HeightProgram

FirstStatement(f) == Program(f)[1]

\* The statement after stmt in function f; "done" after the last.
After(f, stmt) ==
    LET prog == Program(f)
        i == CHOOSE k \in 1..Len(prog) : prog[k] = stmt
    IN  IF i = Len(prog) THEN "done" ELSE prog[i + 1]

\* The state when cleaning function f starts on the table t that read_csv
\* returned, with columns cs.
StartWith(f, t, cs, h) ==
    /\ fn = f
    /\ pc = FirstStatement(f)
    /\ run = 1
    /\ raw = t
    /\ columns = cs
    /\ df = t
    /\ numeric_cols = <<>>
    /\ categorical_cols = <<>>
    /\ medians = <<>>
    /\ original_before_outliers = 0
    /\ col_i = 0
    /\ outlier_report = NoReport
    /\ invalid_count = 0
    /\ csv_out = <<>>
    /\ err = "none"
    /\ stage_in = t
    /\ outlier_in = <<>>
    /\ first_out = <<>>
    /\ trace = <<>>
    /\ df_obj = 1
    /\ passed_in = t
    /\ stats_mode = <<>>
    /\ insights = <<>>
    /\ correlation = <<>>
    /\ key_correlations = <<>>
    /\ written = <<>>
    /\ height = h
    /\ height_in = NaN

Start(f, t, cs) == StartWith(f, t, cs, NaN)

InitActive ==
    \E t \in Tables(ActiveRows, MaxRows) :
        Start("clean_ACTIVE_PLAYERS", t, ActiveColumns)

InitWeights ==
    \E t \in WeightTables : Start("clean_ACTIVE_PLAYERS", t, WeightColumns)

InitStats ==
    \E t \in Tables(StatsRows, MaxStatsRows) \cup StatsScenarioTables :
        Start("calculate_descriptive_stats", t, StatsColumns)

InitPerformance ==
    \E t \in Tables(PerformanceRows, MaxRows) :
        Start("analyze_team_performance", t, PerformanceColumns)

InitOutlier ==
    \E t \in Tables(OutlierRows, MaxOutlierRows) :
        Start("clean_ACTIVE_PLAYERS", t, ActiveColumns)

InitTeams ==
    \/ \E t \in Tables(TeamsRows, MaxRows) :
          Start("clean_get_all_teams", t, TeamsColumns)
    \/ \E t \in Tables(CityRows, MaxRows) :
          Start("clean_get_all_teams", t, CityColumns)

InitAdvanced ==
    \E t \in Tables(AdvancedRows, MaxRows) :
        Start("clean_advanced_team_stats", t, AdvancedColumns)

InitStandings ==
    \E t \in Tables(StandingsRows, MaxRows) :
        Start("clean_league_standings", t, StandingsColumns)

Init ==
    InitActive \/ InitWeights \/ InitTeams \/ InitAdvanced \/ InitStandings

-----------------------------------------------------------------------------
(* Steps shared by the functions.                                           *)

\* What belongs to the other functions of the program.
others == <<correlation, key_correlations, written, height, height_in>>

env == <<fn, run, raw, first_out, stats_mode, insights, others>>

loop == <<original_before_outliers, col_i, outlier_report, outlier_in>>

dtypes == <<numeric_cols, categorical_cols, medians>>

\* Every statement of every function.
EveryStatement ==
    Range(ActiveProgram) \cup Range(TeamsProgram) \cup Range(AdvancedProgram)
        \cup Range(StandingsProgram)

\* The statements that bind df (df_cleaned) to a table they build and leave
\* the DataFrame they were given as it was: df[existing_cols].copy() and the
\* row filters df = df[mask].  (The filter of the outlier loop, line 274, is
\* in A_OutlierColumn.)  The other statements work on the object itself:
\* inplace=True, or an assignment to columns of df.
NewTableStatements == {"v_select", "v_filter_gp", "s_winpct", "s_pointspg"}

\* A statement that turns df into t and goes on to the statement after it;
\* kind is the stage the statement belongs to.
Step(t, kind) ==
    /\ pc' = After(fn, pc)
    /\ df' = t
    /\ stage_in' = df
    /\ trace' = Append(trace, kind)
    /\ df_obj' = IF pc \in NewTableStatements THEN df_obj + 1 ELSE df_obj
    /\ passed_in' = IF pc \in NewTableStatements THEN df ELSE t

\* A statement that raises: nothing below it in the function runs.
Raise(e) ==
    /\ pc' = "raised"
    /\ err' = e
    /\ stage_in' = df
    /\ passed_in' = df
    /\ UNCHANGED <<df, trace, df_obj>>

\* df.to_csv(...)
Save ==
    /\ csv_out' = df
    /\ pc' = After(fn, pc)
    /\ stage_in' = df
    /\ passed_in' = df
    /\ UNCHANGED <<df, trace, df_obj>>

Has(cs, c) == \E i \in 1..Len(cs) : cs[i] = c

AllOf(cs, value) == [c \in Range(cs) |-> value]

-----------------------------------------------------------------------------
(* clean_ACTIVE_PLAYERS.                                                    *)

\* df.dropna(subset=['first_name', 'last_name'], inplace=True)
DropNaNames(t) ==
    SelectSeq(t, LAMBDA r : ~IsNa(r["first_name"]) /\ ~IsNa(r["last_name"]))

A_DropNa ==
    /\ fn = "clean_ACTIVE_PLAYERS" /\ pc = "a_dropna"
    /\ Step(DropNaNames(df), "missing")
    /\ UNCHANGED <<env, columns, dtypes, loop, invalid_count, csv_out, err>>

\* The medians of the columns of the file as it was read.
MediansOfInput(t, cs) == [c \in Range(cs) |-> Median(raw, c)]

\* df[numeric_cols].median(), of the table t on which line 256 takes it.
Medians(t, cs) == [c \in Range(cs) |-> Median(t, c)]

A_FillNumeric ==
    /\ fn = "clean_ACTIVE_PLAYERS" /\ pc = "a_fill_numeric"
    /\ numeric_cols' = SelectDtypes(raw, columns, TRUE)
    /\ medians' = Medians(df, numeric_cols')
    /\ Step(FillCols(df, Range(numeric_cols'), medians'), "missing")
    /\ UNCHANGED <<env, columns, categorical_cols, loop, invalid_count,
                   csv_out, err>>

\* for col in categorical_cols: df[col].fillna('Unknown', inplace=True)
\* (the fill is made on the Series df[col] returns, which writes through to
\* df in the pandas the module is written for).
A_FillCategorical ==
    /\ fn = "clean_ACTIVE_PLAYERS" /\ pc = "a_fill_categorical"
    /\ categorical_cols' = SelectDtypes(raw, columns, FALSE)
    /\ Step(FillCols(df, Range(categorical_cols'),
                     AllOf(categorical_cols', Unknown)), "missing")
    /\ UNCHANGED <<env, columns, numeric_cols, medians, loop, invalid_count,
                   csv_out, err>>

A_DropDuplicates ==
    /\ fn = "clean_ACTIVE_PLAYERS" /\ pc = "a_drop_duplicates"
    /\ Step(DropDuplicates(df), "dedup")
    /\ UNCHANGED <<env, columns, dtypes, loop, invalid_count, csv_out, err>>

\* original_before_outliers = len(df)
A_OutliersBegin ==
    /\ fn = "clean_ACTIVE_PLAYERS" /\ pc = "a_outliers"
    /\ original_before_outliers' = Len(df)
    /\ col_i' = 1
    /\ outlier_in' = df
    /\ Step(df, "outlier")
    /\ UNCHANGED <<env, columns, dtypes, outlier_report, invalid_count,
                   csv_out, err>>

\* One iteration of "for col in numeric_cols": the quartiles are those of
\* column c of df as the earlier iterations left it.  A comparison with NaN
\* (a missing cell, or the bounds of a column with no numbers) is False.
OutlierColumn(t, c) ==
    LET vals == Values(t, c)
    IN  SelectSeq(t, LAMBDA r :
            /\ vals # <<>>
            /\ IsNum(r[c])
            /\ 8 * r[c].n >= LowerBound8(vals)
            /\ 8 * r[c].n <= UpperBound8(vals))

A_OutlierColumn ==
    /\ fn = "clean_ACTIVE_PLAYERS" /\ pc = "a_outlier_col"
    /\ col_i <= Len(numeric_cols)
    /\ col_i' = col_i + 1
    /\ df' = OutlierColumn(df, numeric_cols[col_i])
    /\ stage_in' = df
    /\ trace' = Append(trace, "outlier")
    /\ df_obj' = df_obj + 1
    /\ passed_in' = df
    /\ UNCHANGED <<env, pc, columns, dtypes, original_before_outliers,
                   outlier_report, outlier_in, invalid_count, csv_out, err>>

\* (original_before_outliers - len(df)) / original_before_outliers * 100,
\* printed with one decimal: in tenths, rounded to the nearest.
Pct10(removed, total) == (removed * 2000 + total) \div (2 * total)

A_OutlierPrint ==
    /\ fn = "clean_ACTIVE_PLAYERS" /\ pc = "a_outlier_col"
    /\ col_i > Len(numeric_cols)
    /\ original_before_outliers # 0
    /\ outlier_report' =
          [removed |-> original_before_outliers - Len(df),
           pct10 |-> Pct10(original_before_outliers - Len(df),
                           original_before_outliers)]
    /\ Step(df, "outlier")
    /\ UNCHANGED <<env, columns, dtypes, original_before_outliers, col_i,
                   outlier_in, invalid_count, csv_out, err>>

\* The division of line 276 by original_before_outliers = 0.
A_OutlierPrintRaises ==
    /\ fn = "clean_ACTIVE_PLAYERS" /\ pc = "a_outlier_col"
    /\ col_i > Len(numeric_cols)
    /\ original_before_outliers = 0
    /\ Raise("ZeroDivisionError")
    /\ UNCHANGED <<env, columns, dtypes, loop, invalid_count, csv_out>>

A_Format ==
    /\ fn = "clean_ACTIVE_PLAYERS" /\ pc = "a_format"
    /\ Step(StripTitleCols(df, Range(categorical_cols)), "normalize")
    /\ UNCHANGED <<env, columns, dtypes, loop, invalid_count, csv_out, err>>

A_Save ==
    /\ fn = "clean_ACTIVE_PLAYERS" /\ pc = "a_save"
    /\ Save
    /\ UNCHANGED <<env, columns, dtypes, loop, invalid_count, err>>

NextActive ==
    \/ A_DropNa
    \/ A_FillNumeric
    \/ A_FillCategorical
    \/ A_DropDuplicates
    \/ A_OutliersBegin
    \/ A_OutlierColumn
    \/ A_OutlierPrint
    \/ A_OutlierPrintRaises
    \/ A_Format
    \/ A_Save

-----------------------------------------------------------------------------
(* clean_get_all_teams.                                                     *)

\* df.fillna('Unknown', inplace=True): every column.
FillAllUnknown(t, cs) == FillCols(t, Range(cs), AllOf(cs, Unknown))

T_FillNa ==
    /\ fn = "clean_get_all_teams" /\ pc = "t_fillna"
    /\ Step(FillAllUnknown(df, columns), "missing")
    /\ UNCHANGED <<env, columns, dtypes, loop, invalid_count, csv_out, err>>

T_DropDuplicates ==
    /\ fn = "clean_get_all_teams" /\ pc = "t_drop_duplicates"
    /\ Step(DropDuplicates(df), "dedup")
    /\ UNCHANGED <<env, columns, dtypes, loop, invalid_count, csv_out, err>>

T_Format ==
    /\ fn = "clean_get_all_teams" /\ pc = "t_format"
    /\ Has(columns, "full_name")
    /\ Step(StripTitleCols(df, {"full_name"}), "normalize")
    /\ UNCHANGED <<env, columns, dtypes, loop, invalid_count, csv_out, err>>

\* df['full_name'] of a table without that column.
T_FormatRaises ==
    /\ fn = "clean_get_all_teams" /\ pc = "t_format"
    /\ ~Has(columns, "full_name")
    /\ Raise("KeyError")
    /\ UNCHANGED <<env, columns, dtypes, loop, invalid_count, csv_out>>

T_Save ==
    /\ fn = "clean_get_all_teams" /\ pc = "t_save"
    /\ Save
    /\ UNCHANGED <<env, columns, dtypes, loop, invalid_count, err>>

NextTeams ==
    \/ T_FillNa
    \/ T_DropDuplicates
    \/ T_Format
    \/ T_FormatRaises
    \/ T_Save

-----------------------------------------------------------------------------
(* clean_advanced_team_stats.                                               *)

columns_to_keep ==
    <<"TEAM_NAME", "GP", "W", "L", "OFF_RATING", "DEF_RATING", "NET_RATING",
      "W_RANK", "L_RANK">>

AdvNumericCols == <<"GP", "W", "L", "OFF_RATING", "DEF_RATING", "NET_RATING">>

\* [col for col in columns_to_keep if col in df.columns]
ExistingCols(cs) == SelectSeq(columns_to_keep, LAMBDA c : Has(cs, c))

\* df[existing_cols]
Project(t, cs) == [i \in 1..Len(t) |-> [c \in Range(cs) |-> t[i][c]]]

V_Select ==
    /\ fn = "clean_advanced_team_stats" /\ pc = "v_select"
    /\ columns' = ExistingCols(columns)
    /\ Step(Project(df, columns'), "select")
    /\ UNCHANGED <<env, dtypes, loop, invalid_count, csv_out, err>>

\* Step 2 of the function, "Formatting: Standardize Text & Types", which
\* trims TEAM_NAME and then coerces the number columns.
\* .astype(str).str.strip(): astype(str) makes the text "nan" of a missing
\* cell.
AsTypeStrStrip(c) == IF IsNa(c) THEN Str(<<"n", "a", "n">>) ELSE StripCell(c)

StripTeamName(t, cs) ==
    [i \in 1..Len(t) |->
        [c \in DOMAIN t[i] |->
            IF c = "TEAM_NAME" THEN AsTypeStrStrip(t[i][c]) ELSE t[i][c]]]

V_Strip ==
    /\ fn = "clean_advanced_team_stats" /\ pc = "v_strip"
    /\ Step(StripTeamName(df, columns), "coerce")
    /\ UNCHANGED <<env, columns, dtypes, loop, invalid_count, csv_out, err>>

\* pd.to_numeric(errors='coerce'): a cell that is not a number becomes NaN.
ToNumeric(c) == IF c.k = "str" THEN NaN ELSE c

CoerceNumeric(t, cs) ==
    [i \in 1..Len(t) |->
        [c \in DOMAIN t[i] |->
            IF Has(AdvNumericCols, c) THEN ToNumeric(t[i][c]) ELSE t[i][c]]]

V_ToNumeric ==
    /\ fn = "clean_advanced_team_stats" /\ pc = "v_to_numeric"
    /\ Step(CoerceNumeric(df, columns), "coerce")
    /\ UNCHANGED <<env, columns, dtypes, loop, invalid_count, csv_out, err>>

\* df_cleaned.dropna(inplace=True): a missing cell in any column.
DropNaAny(t) == SelectSeq(t, LAMBDA r : \A c \in DOMAIN r : ~IsNa(r[c]))

V_DropNa ==
    /\ fn = "clean_advanced_team_stats" /\ pc = "v_dropna"
    /\ Step(DropNaAny(df), "missing")
    /\ UNCHANGED <<env, columns, dtypes, loop, invalid_count, csv_out, err>>

\* if 'GP' in df_cleaned.columns: df_cleaned = df_cleaned[df_cleaned['GP'] > 0]
FilterGP(t, cs) ==
    IF Has(cs, "GP") THEN SelectSeq(t, LAMBDA r : r["GP"].n > 0) ELSE t

V_FilterGP ==
    /\ fn = "clean_advanced_team_stats" /\ pc = "v_filter_gp"
    /\ Step(FilterGP(df, columns), "consistency")
    /\ UNCHANGED <<env, columns, dtypes, loop, invalid_count, csv_out, err>>

\* valid_games_mask of a row.
ValidGames(r) == r["W"].n + r["L"].n = r["GP"].n

\* (~valid_games_mask).sum(), when W, L and GP are columns.
InvalidCount(t, cs) ==
    IF Has(cs, "W") /\ Has(cs, "L") /\ Has(cs, "GP")
    THEN Len(SelectSeq(t, LAMBDA r : ~ValidGames(r)))
    ELSE 0

\* df_cleaned = df_cleaned[valid_games_mask]
StrictGamesCheck(t, cs) ==
    IF Has(cs, "W") /\ Has(cs, "L") /\ Has(cs, "GP")
    THEN SelectSeq(t, LAMBDA r : r["W"].n + r["L"].n = r["GP"].n)
    ELSE t

\* df_cleaned after the W + L check: the rows are kept (the line that would
\* remove them is commented out).
AfterGamesCheck(t, cs) == t

V_CheckWL ==
    /\ fn = "clean_advanced_team_stats" /\ pc = "v_check_wl"
    /\ invalid_count' = InvalidCount(df, columns)
    /\ Step(AfterGamesCheck(df, columns), "consistency")
    /\ UNCHANGED <<env, columns, dtypes, loop, csv_out, err>>

V_Save ==
    /\ fn = "clean_advanced_team_stats" /\ pc = "v_save"
    /\ Save
    /\ UNCHANGED <<env, columns, dtypes, loop, invalid_count, err>>

\* Lines 371-396: the file is read again, its columns are selected, and the
\* selection is written over the output of the first block.
V_Second ==
    /\ fn = "clean_advanced_team_stats" /\ pc = "v_second"
    /\ df' = Project(raw, columns)
    /\ csv_out' = df'
    /\ pc' = After(fn, pc)
    /\ stage_in' = df
    /\ df_obj' = df_obj + 1
    /\ passed_in' = df
    /\ UNCHANGED <<env, columns, dtypes, loop, invalid_count, err, trace>>

NextAdvanced ==
    \/ V_Select
    \/ V_Strip
    \/ V_ToNumeric
    \/ V_DropNa
    \/ V_FilterGP
    \/ V_CheckWL
    \/ V_Save
    \/ V_Second

-----------------------------------------------------------------------------
(* clean_league_standings.                                                  *)

clinch_cols ==
    <<"ClinchIndicator", "ClinchedConferenceTitle", "ClinchedDivisionTitle",
      "ClinchedPlayoffBirth">>

No == Str(<<"N", "o">>)

\* for col in clinch_cols: if col in df.columns: df[col] = df[col].fillna('No')
FillClinch(t, cs) ==
    LET present == SelectSeq(clinch_cols, LAMBDA c : Has(cs, c))
    IN  FillCols(t, Range(present), AllOf(present, No))

S_FillClinch ==
    /\ fn = "clean_league_standings" /\ pc = "s_fill_clinch"
    /\ Step(FillClinch(df, columns), "missing")
    /\ UNCHANGED <<env, columns, dtypes, loop, invalid_count, csv_out, err>>

\* numeric_cols = df.select_dtypes(include=[np.number]).columns
\* df[numeric_cols] = df[numeric_cols].fillna(0)
S_FillNumeric ==
    /\ fn = "clean_league_standings" /\ pc = "s_fill_numeric"
    /\ numeric_cols' = SelectDtypes(df, columns, TRUE)
    /\ Step(FillCols(df, Range(numeric_cols'), AllOf(numeric_cols', Num(0))),
            "missing")
    /\ UNCHANGED <<env, columns, categorical_cols, medians, loop,
                   invalid_count, csv_out, err>>

S_FillText ==
    /\ fn = "clean_league_standings" /\ pc = "s_fill_text"
    /\ Step(FillAllUnknown(df, columns), "missing")
    /\ UNCHANGED <<env, columns, dtypes, loop, invalid_count, csv_out, err>>

StandingsTextCols == <<"TeamCity", "TeamName">>

\* The .str accessor of a column that holds numbers only (a column of empty
\* cells, filled with 0) raises AttributeError.
StrAccessorFails(t, cs) ==
    \E c \in Range(StandingsTextCols) : Has(cs, c) /\ IsNumberDtype(t, c)

S_Format ==
    /\ fn = "clean_league_standings" /\ pc = "s_format"
    /\ ~StrAccessorFails(df, columns)
    /\ Step(StripTitleCols(df, Range(StandingsTextCols) \cap Range(columns)),
            "normalize")
    /\ UNCHANGED <<env, columns, dtypes, loop, invalid_count, csv_out, err>>

S_FormatRaises ==
    /\ fn = "clean_league_standings" /\ pc = "s_format"
    /\ StrAccessorFails(df, columns)
    /\ Raise("AttributeError")
    /\ UNCHANGED <<env, columns, dtypes, loop, invalid_count, csv_out>>

\* WinPCT is carried in tenths: 0.0 and 1.0.
WinPctMin == 0

WinPctMax == 10

PointsPGMin == 60

PointsPGMax == 160

\* df[(df['WinPCT'] >= 0.0) & (df['WinPCT'] <= 1.0)]
FilterWinPct(t, cs) ==
    IF Has(cs, "WinPCT")
    THEN SelectSeq(t, LAMBDA r :
             r["WinPCT"].n >= WinPctMin /\ r["WinPCT"].n <= WinPctMax)
    ELSE t

\* The PointsPG filter with its two limits included.
FilterPointsPGInclusive(t, cs) ==
    IF Has(cs, "PointsPG")
    THEN SelectSeq(t, LAMBDA r :
             r["PointsPG"].n >= PointsPGMin /\ r["PointsPG"].n <= PointsPGMax)
    ELSE t

\* df[(df['PointsPG'] > 60) & (df['PointsPG'] < 160)]
FilterPointsPG(t, cs) ==
    IF Has(cs, "PointsPG")
    THEN SelectSeq(t, LAMBDA r :
             r["PointsPG"].n > PointsPGMin /\ r["PointsPG"].n < PointsPGMax)
    ELSE t

S_WinPct ==
    /\ fn = "clean_league_standings" /\ pc = "s_winpct"
    /\ Step(FilterWinPct(df, columns), "outlier")
    /\ UNCHANGED <<env, columns, dtypes, loop, invalid_count, csv_out, err>>

S_PointsPG ==
    /\ fn = "clean_league_standings" /\ pc = "s_pointspg"
    /\ Step(FilterPointsPG(df, columns), "outlier")
    /\ UNCHANGED <<env, columns, dtypes, loop, invalid_count, csv_out, err>>

S_Save ==
    /\ fn = "clean_league_standings" /\ pc = "s_save"
    /\ Save
    /\ UNCHANGED <<env, columns, dtypes, loop, invalid_count, err>>

NextStandings ==
    \/ S_FillClinch
    \/ S_FillNumeric
    \/ S_FillText
    \/ S_Format
    \/ S_FormatRaises
    \/ S_WinPct
    \/ S_PointsPG
    \/ S_Save

-----------------------------------------------------------------------------
(* calculate_descriptive_stats (src/descriptive_stats.py).                  *)

\* How many cells of the column hold the number v.
Count(vals, v) == Cardinality({i \in 1..Len(vals) : vals[i] = v})

\* The most frequent value that comes first in row order.
ModeFirstSeen(t, c) ==
    LET vals == Values(t, c)
        top == {i \in 1..Len(vals) :
                   \A j \in 1..Len(vals) :
                       Count(vals, vals[j]) <= Count(vals, vals[i])}
    IN  IF vals = <<>> THEN NaN
        ELSE Num(vals[CHOOSE i \in top : \A j \in top : i <= j])

\* df[numeric_cols].mode().iloc[0]: DataFrame.mode() skips NaN and lists the
\* modes of each column in ascending order, so row 0 holds the smallest mode
\* of each column; NaN (None) for a column with no value.
Mode(t, c) ==
    LET vals == Values(t, c)
        modes == {v \in Range(vals) :
                     \A w \in Range(vals) : Count(vals, w) <= Count(vals, v)}
    IN  IF vals = <<>> THEN NaN
        ELSE Num(CHOOSE v \in modes : \A w \in modes : v <= w)

\* Lines 27-41; numeric_cols is the argument of the call.
D_Stats ==
    /\ fn = "calculate_descriptive_stats" /\ pc = "d_stats"
    /\ numeric_cols' = columns
    /\ stats_mode' = [c \in Range(columns) |-> Mode(df, c)]
    /\ col_i' = 1
    /\ Step(df, "stats")
    /\ UNCHANGED <<fn, run, raw, first_out, insights, others, columns,
                   categorical_cols, medians, original_before_outliers,
                   outlier_report, outlier_in, invalid_count, csv_out, err>>

\* Detection that also counts the values that lie on a bound.
OutliersInclusive(t, c) ==
    LET vals == Values(t, c)
        found == SelectSeq(t, LAMBDA r :
                     /\ vals # <<>>
                     /\ IsNum(r[c])
                     /\ \/ 8 * r[c].n <= LowerBound8(vals)
                        \/ 8 * r[c].n >= UpperBound8(vals))
    IN  [i \in 1..Len(found) |-> found[i][c]]

\* outliers = df[(df[col] < lower_bound) | (df[col] > upper_bound)]: the
\* values of column c in the rows found.  A comparison with NaN is False.
Outliers(t, c) ==
    LET vals == Values(t, c)
        found == SelectSeq(t, LAMBDA r :
                     /\ vals # <<>>
                     /\ IsNum(r[c])
                     /\ \/ 8 * r[c].n < LowerBound8(vals)
                        \/ 8 * r[c].n > UpperBound8(vals))
    IN  [i \in 1..Len(found) |-> found[i][c]]

\* df = df[(df[col] >= lower_bound) & (df[col] <= upper_bound)]: detection
\* that filters the table.
TableWithoutOutliers(t, c) ==
    LET vals == Values(t, c)
    IN  SelectSeq(t, LAMBDA r :
            /\ vals # <<>>
            /\ IsNum(r[c])
            /\ 8 * r[c].n >= LowerBound8(vals)
            /\ 8 * r[c].n <= UpperBound8(vals))

\* tolist() without the slice.
AllValues(found) == found

\* outliers[col].tolist()[:10]
MaxOutlierValues == 10

FirstValues(found) ==
    SubSeq(found, 1, IF Len(found) < MaxOutlierValues
                     THEN Len(found) ELSE MaxOutlierValues)

\* df after one iteration of the loop of lines 45-65: the rows found are
\* bound to the name outliers, and df is not assigned.
TableAfterDetection(t, c) == t

D_OutlierColumn ==
    /\ fn = "calculate_descriptive_stats" /\ pc = "d_outlier_col"
    /\ col_i <= Len(numeric_cols)
    /\ Len(df) # 0
    /\ LET c == numeric_cols[col_i]
           found == Outliers(df, c)
       IN  /\ insights' =
                 [k \in DOMAIN insights \cup {c} |->
                     IF k = c
                     THEN [outlier_count |-> Len(found),
                           outlier_pct10 |-> Pct10(Len(found), Len(df)),
                           outlier_values |-> FirstValues(found)]
                     ELSE insights[k]]
           /\ df' = TableAfterDetection(df, c)
    /\ col_i' = col_i + 1
    /\ stage_in' = df
    /\ passed_in' = df'
    /\ trace' = Append(trace, "detect")
    /\ UNCHANGED <<fn, run, raw, first_out, stats_mode, others, pc, columns,
                   dtypes,
                   original_before_outliers, outlier_report, outlier_in,
                   invalid_count, csv_out, err, df_obj>>

\* outlier_pct = (outlier_count / len(df)) * 100 with len(df) = 0.
D_OutlierRaises ==
    /\ fn = "calculate_descriptive_stats" /\ pc = "d_outlier_col"
    /\ col_i <= Len(numeric_cols)
    /\ Len(df) = 0
    /\ Raise("ZeroDivisionError")
    /\ UNCHANGED <<env, columns, dtypes, loop, invalid_count, csv_out>>

D_LoopEnds ==
    /\ fn = "calculate_descriptive_stats" /\ pc = "d_outlier_col"
    /\ col_i > Len(numeric_cols)
    /\ Step(df, "detect")
    /\ UNCHANGED <<env, columns, dtypes, loop, invalid_count, csv_out, err>>

\* return stats_df, insights
D_Return ==
    /\ fn = "calculate_descriptive_stats" /\ pc = "d_return"
    /\ Step(df, "return")
    /\ UNCHANGED <<env, columns, dtypes, loop, invalid_count, csv_out, err>>

NextStats ==
    \/ D_Stats
    \/ D_OutlierColumn
    \/ D_OutlierRaises
    \/ D_LoopEnds
    \/ D_Return

-----------------------------------------------------------------------------
(* analyze_team_performance (src/descriptive_stats.py).                     *)

RECURSIVE SumSeq(_)
SumSeq(vals) == IF vals = <<>> THEN 0 ELSE Head(vals) + SumSeq(Tail(vals))

\* calculate_descriptive_stats(df, numeric_cols, ...): it raises on a table
\* with no rows (the division of its line 54) and leaves df as it is.
P_Stats ==
    /\ fn = "analyze_team_performance" /\ pc = "p_stats"
    /\ Len(df) # 0
    /\ Step(df, "stats")
    /\ UNCHANGED <<env, columns, dtypes, loop, invalid_count, csv_out, err>>

P_StatsRaises ==
    /\ fn = "analyze_team_performance" /\ pc = "p_stats"
    /\ Len(df) = 0
    /\ Raise("ZeroDivisionError")
    /\ UNCHANGED <<env, columns, dtypes, loop, invalid_count, csv_out>>

\* df['WIN_PCT'] = (df['W'] / df['GP']).round(3), carried in tenths: GP is
\* 10 in every row of the tables of the model.
WithWinPct(t) ==
    [i \in 1..Len(t) |->
        [c \in DOMAIN t[i] \cup {"WIN_PCT"} |->
            IF c = "WIN_PCT" THEN Num((10 * t[i]["W"].n) \div t[i]["GP"].n)
            ELSE t[i][c]]]

P_WinPct ==
    /\ fn = "analyze_team_performance" /\ pc = "p_win_pct"
    /\ columns' = Append(columns, "WIN_PCT")
    /\ Step(WithWinPct(df), "stats")
    /\ UNCHANGED <<env, dtypes, loop, invalid_count, csv_out, err>>

corr_cols == <<"W", "OFF_RATING", "DEF_RATING", "NET_RATING", "WIN_PCT">>

\* DataFrame.corr(): Pearson's r of columns x and y, kept as the integers
\* c, vx, vy with r = c / sqrt(vx * vy); NaN when a column has no variance
\* (0/0), which includes a table of fewer than two rows.
Corr(t, x, y) ==
    LET n == Len(t)
        xs == Values(t, x)
        ys == Values(t, y)
        sx == SumSeq(xs)
        sy == SumSeq(ys)
        sxy == SumSeq([i \in 1..n |-> xs[i] * ys[i]])
        vx == n * SumSeq([i \in 1..n |-> xs[i] * xs[i]]) - sx * sx
        vy == n * SumSeq([i \in 1..n |-> ys[i] * ys[i]]) - sy * sy
    IN  IF vx = 0 \/ vy = 0 THEN NaN
        ELSE [k |-> "corr", c |-> n * sxy - sx * sy, vx |-> vx, vy |-> vy]

\* correlation = df[corr_cols].corr().round(3); correlation['W']
P_Corr ==
    /\ fn = "analyze_team_performance" /\ pc = "p_corr"
    /\ correlation' = [m \in Range(corr_cols) |-> Corr(df, "W", m)]
    /\ Step(df, "stats")
    /\ UNCHANGED <<fn, run, raw, first_out, stats_mode, insights,
                   key_correlations, written, height, height_in, columns,
                   dtypes, loop, invalid_count, csv_out, err>>

\* abs(corr_value) > num/den.  A comparison with NaN is False.  (The
\* rounding to 3 decimals of line 158 moves no correlation of the tables of
\* the model across 0.8, 0.6, 0.4 or 0.)
AbsAbove(r, num, den) ==
    /\ ~IsNa(r)
    /\ den * den * r.c * r.c > num * num * r.vx * r.vy

\* Lines 166-167.
Strength(r) ==
    IF AbsAbove(r, 8, 10) THEN "Very Strong"
    ELSE IF AbsAbove(r, 6, 10) THEN "Strong"
    ELSE IF AbsAbove(r, 4, 10) THEN "Moderate"
    ELSE "Weak"

Direction(r) == IF ~IsNa(r) /\ r.c > 0 THEN "positive" ELSE "negative"

\* The loop of lines 165-169: one printed line for each metric but W.
P_Classify ==
    /\ fn = "analyze_team_performance" /\ pc = "p_classify"
    /\ key_correlations' =
          [m \in DOMAIN correlation \ {"W"} |->
              [corr_value |-> correlation[m],
               strength |-> Strength(correlation[m]),
               direction |-> Direction(correlation[m])]]
    /\ Step(df, "stats")
    /\ UNCHANGED <<fn, run, raw, first_out, stats_mode, insights, correlation,
                   written, height, height_in, columns, dtypes, loop,
                   invalid_count, csv_out, err>>

NextPerformance ==
    \/ P_Stats
    \/ P_StatsRaises
    \/ P_WinPct
    \/ P_Corr
    \/ P_Classify

-----------------------------------------------------------------------------
(* height_to_inches.  None is the missing value NaN.                        *)

HeightChars == {"6", "2", "-", " ", "+", "x", "_"}

Heights ==
    {NaN, Num(0), Num(74)}
    \cup {Str(t) : t \in UNION {[1..k -> HeightChars] : k \in 0..MaxHeightLen}}

InitHeight == \E h \in Heights : StartWith("height_to_inches", <<>>, <<>>, h)

DigitChars == <<"0", "1", "2", "3", "4", "5", "6", "7", "8", "9">>

IsDigit(ch) == \E i \in 1..Len(DigitChars) : DigitChars[i] = ch

DigitValue(ch) == (CHOOSE i \in 1..Len(DigitChars) : DigitChars[i] = ch) - 1

\* The digits of the text given to int(), after the surrounding whitespace
\* and one sign are taken off.
IntDigits(t) ==
    LET u == StrStrip(t)
    IN  IF u # <<>> /\ u[1] \in {"+", "-"} THEN Tail(u) ELSE u

\* int(t) does not raise ValueError: digits, with single underscores allowed
\* between two digits.
IntParses(t) ==
    LET b == IntDigits(t)
    IN  /\ b # <<>>
        /\ IsDigit(b[1]) /\ IsDigit(b[Len(b)])
        /\ \A i \in 1..Len(b) : IsDigit(b[i]) \/ b[i] = "_"
        /\ \A i \in 1..(Len(b) - 1) : ~(b[i] = "_" /\ b[i + 1] = "_")

RECURSIVE DigitsValue(_, _)
DigitsValue(b, acc) ==
    IF b = <<>> THEN acc
    ELSE IF Head(b) = "_" THEN DigitsValue(Tail(b), acc)
    ELSE DigitsValue(Tail(b), 10 * acc + DigitValue(Head(b)))

\* int(t)
IntOf(t) ==
    LET u == StrStrip(t)
        v == DigitsValue(IntDigits(t), 0)
    IN  IF u[1] = "-" THEN 0 - v ELSE v

HasDash(t) == \E i \in 1..Len(t) : t[i] = "-"

\* The position of the first "-" of t.
FirstDash(t) ==
    CHOOSE i \in 1..Len(t) : t[i] = "-" /\ \A j \in 1..(i - 1) : t[j] # "-"

\* h.split("-", 1): cut at the first "-" only.
StrSplitOnce(t) ==
    IF HasDash(t)
    THEN <<SubSeq(t, 1, FirstDash(t) - 1), SubSeq(t, FirstDash(t) + 1, Len(t))>>
    ELSE <<t>>

\* h.split("-")
RECURSIVE StrSplit(_)
StrSplit(t) ==
    IF HasDash(t)
    THEN <<SubSeq(t, 1, FirstDash(t) - 1)>>
         \o StrSplit(SubSeq(t, FirstDash(t) + 1, Len(t)))
    ELSE <<t>>

\* What the call leaves alone: everything but pc and height_in.
caller ==
    <<fn, run, raw, columns, df, dtypes, loop, invalid_count, csv_out, err,
      stage_in, first_out, trace, df_obj, stats_mode, insights, correlation,
      key_correlations, written, height, passed_in>>

Return(v) ==
    /\ pc' = "done"
    /\ height_in' = v
    /\ UNCHANGED caller

Continue ==
    /\ pc' = After(fn, pc)
    /\ UNCHANGED <<height_in, caller>>

\* if pd.isna(h): return None
H_IsNa ==
    /\ fn = "height_to_inches" /\ pc = "h_isna"
    /\ IF IsNa(height) THEN Return(NaN) ELSE Continue

\* if isinstance(h, (int, float)): return h
H_IsInstance ==
    /\ fn = "height_to_inches" /\ pc = "h_isinstance"
    /\ IF IsNum(height) THEN Return(height) ELSE Continue

\* h = str(h); if "-" not in h: return None
H_Dash ==
    /\ fn = "height_to_inches" /\ pc = "h_dash"
    /\ IF ~HasDash(height.s) THEN Return(NaN) ELSE Continue

\* feet, inches = h.split("-"); return int(feet) * 12 + int(inches), and
\* None when the unpacking or an int() raises.
H_Split ==
    /\ fn = "height_to_inches" /\ pc = "h_split"
    /\ LET parts == StrSplit(height.s)
       IN  IF Len(parts) = 2 /\ IntParses(parts[1]) /\ IntParses(parts[2])
           THEN Return(Num(IntOf(parts[1]) * 12 + IntOf(parts[2])))
           ELSE Return(NaN)

NextHeight == H_IsNa \/ H_IsInstance \/ H_Dash \/ H_Split

-----------------------------------------------------------------------------
(* A second invocation, on the file the first one wrote.                    *)

Rerun ==
    /\ pc = "done" /\ run = 1
    /\ run' = 2
    /\ first_out' = csv_out
    /\ raw' = ReadBack(csv_out)
    /\ df' = raw'
    /\ stage_in' = raw'
    /\ pc' = FirstStatement(fn)
    /\ numeric_cols' = <<>>
    /\ categorical_cols' = <<>>
    /\ medians' = <<>>
    /\ original_before_outliers' = 0
    /\ col_i' = 0
    /\ outlier_report' = NoReport
    /\ outlier_in' = <<>>
    /\ invalid_count' = 0
    /\ csv_out' = <<>>
    /\ trace' = <<>>
    /\ df_obj' = 1
    /\ passed_in' = raw'
    /\ UNCHANGED <<fn, columns, err, stats_mode, insights, others>>

-----------------------------------------------------------------------------
(* clean_data: the cleaners called one after the other, lines 28-34, with   *)
(* no try/except around the calls.  clean_get_all_players_of_all_time,      *)
(* clean_single_player_by_id and clean_player_info_by_full_name, called     *)
(* between clean_get_all_teams and clean_ACTIVE_PLAYERS, are left out.      *)

CleanDataCalls ==
    <<"clean_get_all_teams", "clean_ACTIVE_PLAYERS",
      "clean_advanced_team_stats", "clean_league_standings">>

\* The files a cleaner may find: a table and its header.
CleanerInputs(f) ==
    CASE f = "clean_get_all_teams" ->
             [t : Tables(TeamsRows, MaxRows), cs : {TeamsColumns}]
             \cup [t : Tables(CityRows, MaxRows), cs : {CityColumns}]
      [] f = "clean_ACTIVE_PLAYERS" ->
             [t : Tables(ActiveRows, MaxRows), cs : {ActiveColumns}]
      [] f = "clean_advanced_team_stats" ->
             [t : Tables(AdvancedRows, MaxRows), cs : {AdvancedColumns}]
      [] f = "clean_league_standings" ->
             [t : Tables(StandingsRows, MaxRows), cs : {StandingsColumns}]

\* The position in clean_data of the call of the cleaner that is running.
CallIndex == CHOOSE k \in 1..Len(CleanDataCalls) : CleanDataCalls[k] = fn

\* A cleaner has returned and clean_data calls the next one, which reads its
\* own file.  A cleaner that raised does not return: the exception leaves
\* clean_data, and no later call is made.
CleanDataNext ==
    /\ pc = "done"
    /\ CallIndex < Len(CleanDataCalls)
    /\ written' = Append(written, fn)
    /\ fn' = CleanDataCalls[CallIndex + 1]
    /\ \E file \in CleanerInputs(fn') :
          /\ raw' = file.t
          /\ columns' = file.cs
    /\ pc' = FirstStatement(fn')
    /\ df' = raw'
    /\ stage_in' = raw'
    /\ passed_in' = raw'
    /\ numeric_cols' = <<>>
    /\ categorical_cols' = <<>>
    /\ medians' = <<>>
    /\ original_before_outliers' = 0
    /\ col_i' = 0
    /\ outlier_report' = NoReport
    /\ outlier_in' = <<>>
    /\ invalid_count' = 0
    /\ csv_out' = <<>>
    /\ trace' = <<>>
    /\ df_obj' = 1
    /\ UNCHANGED <<run, first_out, err, stats_mode, insights, correlation,
                   key_correlations, height, height_in>>

\* The last cleaner has returned: "Data cleaning complete".
CleanDataComplete ==
    /\ pc = "done"
    /\ CallIndex = Len(CleanDataCalls)
    /\ written' = Append(written, fn)
    /\ pc' = "complete"
    /\ UNCHANGED <<fn, run, raw, columns, df, dtypes, loop, invalid_count,
                   csv_out, err, stage_in, first_out, trace, df_obj,
                   stats_mode, insights, correlation, key_correlations,
                   height, height_in, passed_in>>

InitCleanData == InitTeams

-----------------------------------------------------------------------------
(* Specifications.                                                          *)

Next == NextActive \/ NextTeams \/ NextAdvanced \/ NextStandings

Spec == Init /\ [][Next]_vars

\* The outlier loop on tables of up to MaxOutlierRows rows.
SpecOutlier == InitOutlier /\ [][NextActive]_vars

\* calculate_descriptive_stats on tables of up to MaxStatsRows rows.
SpecStats == InitStats /\ [][NextStats]_vars

\* analyze_team_performance on tables of up to MaxRows rows.
SpecPerformance == InitPerformance /\ [][NextPerformance]_vars

NextCleanData == Next \/ CleanDataNext \/ CleanDataComplete

\* height_to_inches on texts of up to MaxHeightLen characters.
SpecHeight == InitHeight /\ [][NextHeight]_vars

\* clean_data on files of up to MaxRows rows.
SpecCleanData == InitCleanData /\ [][NextCleanData]_vars

\* Each function run a second time on its own output.
SpecRerun == Init /\ [][Next \/ Rerun]_vars

-----------------------------------------------------------------------------
(* Properties.                                                              *)

\* The outlier loop has run over all of numeric_cols, and no later statement
\* has changed df.
OutliersDone ==
    /\ fn = "clean_ACTIVE_PLAYERS"
    /\ \/ pc = "a_format"
       \/ pc = "a_outlier_col" /\ col_i > Len(numeric_cols)

\* r[c] lies within the IQR bounds of column c of table t.
InBounds(t, c, r) ==
    LET vals == Values(t, c)
    IN  /\ vals # <<>>
        /\ IsNum(r[c])
        /\ 8 * r[c].n >= LowerBound8(vals)
        /\ 8 * r[c].n <= UpperBound8(vals)

\* C1: after the outlier loop, every retained row's value in every number
\* column lies within Q1 - 1.5 IQR and Q3 + 1.5 IQR of that column, the
\* quartiles being those of the table as it was when the loop began.
C1_RetainedWithinEntryBounds ==
    (OutliersDone /\ numeric_cols # <<>>) =>
        \A i \in 1..Len(df) : \A c \in Range(numeric_cols) :
            InBounds(outlier_in, c, df[i])

\* C2: the outlier loop removes exactly the rows with a value outside the
\* bounds taken from the table as it was when the loop began: a row inside
\* the entry-time bounds of all its columns is never removed.
C2_RemovesExactlyEntryOutliers ==
    (OutliersDone /\ numeric_cols # <<>>) =>
        df = SelectSeq(outlier_in, LAMBDA r :
                 \A c \in Range(numeric_cols) : InBounds(outlier_in, c, r))


\* The positions of t that hold the first occurrence of their row.
FirstOccurrences(t) ==
    {i \in 1..Len(t) : \A j \in 1..(i - 1) : t[j] # t[i]}

\* The k-th smallest member of a set of positions.
Nth(S, k) == CHOOSE i \in S : Cardinality({j \in S : j <= i}) = k

AfterDropDuplicates ==
    \/ fn = "clean_ACTIVE_PLAYERS" /\ pc = After(fn, "a_drop_duplicates")
    \/ fn = "clean_get_all_teams" /\ pc = After(fn, "t_drop_duplicates")

\* C3: after drop_duplicates the table holds, in their original order, the
\* rows at the first-occurrence positions of the table before it: a row that
\* appeared several times survives once, where it first appeared, and a row
\* that appeared once survives.
C3_DedupKeepsFirstOccurrences ==
    AfterDropDuplicates =>
        LET F == FirstOccurrences(stage_in)
        IN  /\ Len(df) = Cardinality(F)
            /\ \A k \in 1..Len(df) : df[k] = stage_in[Nth(F, k)]

\* A table a, b, a went through drop_duplicates and a, b came out.
C3_Witness ==
    /\ AfterDropDuplicates
    /\ Len(stage_in) = 3
    /\ stage_in[1] = stage_in[3]
    /\ stage_in[1] # stage_in[2]
    /\ df = <<stage_in[1], stage_in[2]>>

AfterFillMedian ==
    fn = "clean_ACTIVE_PLAYERS" /\ pc = After(fn, "a_fill_numeric")

\* Rows of stage_in (the table line 256 filled) with a missing cell in c.
MissingAt(t, c) == {i \in 1..Len(t) : IsNa(t[i][c])}

MissingStageDone ==
    \/ fn = "clean_ACTIVE_PLAYERS" /\ pc = After(fn, "a_fill_categorical")
    \/ fn = "clean_get_all_teams" /\ pc = After(fn, "t_fillna")
    \/ fn = "clean_advanced_team_stats" /\ pc = After(fn, "v_dropna")
    \/ fn = "clean_league_standings" /\ pc = After(fn, "s_fill_text")

\* C5: when the missing-value stage has completed without error, no column
\* of the table holds a missing value.
C5_NoMissingAfterMissingStage ==
    (MissingStageDone /\ err = "none") =>
        \A i \in 1..Len(df) : \A c \in DOMAIN df[i] : ~IsNa(df[i][c])

\* The median of some number column was taken over no value.
UndefinedMedian ==
    /\ fn = "clean_ACTIVE_PLAYERS"
    /\ \E c \in DOMAIN medians : IsNa(medians[c])

\* C6: when a number column has no non-missing value the missing-value stage
\* reports a data-quality error and the remaining stages do not run.
C6_UndefinedMedianAborts ==
    UndefinedMedian => (pc = "raised" /\ err = "DataQualityError")

AfterGamesCheckDone ==
    fn = "clean_advanced_team_stats" /\ pc = After(fn, "v_check_wl")

\* C7: the W + L == GP check keeps every row that enters it, unchanged and
\* in order, and counts the rows with W + L != GP.
C7_WarnOnlyKeepsRows ==
    AfterGamesCheckDone =>
        /\ df = stage_in
        /\ invalid_count =
              Cardinality({i \in 1..Len(stage_in) :
                  stage_in[i]["W"].n + stage_in[i]["L"].n
                      # stage_in[i]["GP"].n})

\* Rows {GP 10, W 6, L 4} and {GP 10, W 7, L 4} entered the check: both are
\* kept and one violation is counted.
C7_Witness ==
    /\ AfterGamesCheckDone
    /\ Len(stage_in) = 2
    /\ stage_in[1]["GP"] = Num(10) /\ stage_in[1]["W"] = Num(6)
    /\ stage_in[1]["L"] = Num(4)
    /\ stage_in[2]["GP"] = Num(10) /\ stage_in[2]["W"] = Num(7)
    /\ stage_in[2]["L"] = Num(4)
    /\ Len(df) = 2
    /\ invalid_count = 1

\* C8: a function run on its own cleaned output completes and writes a table
\* identical to that output.
C8_SecondRunChangesNothing ==
    (run = 2 /\ pc \in {"done", "raised"}) =>
        (pc = "done" /\ csv_out = first_out)

\* The place of a stage in the order type coercion, missing values,
\* deduplication, outlier filtering, consistency checks, text normalization;
\* 0 for a statement that is none of them (column selection).
Rank(kind) ==
    CASE kind = "coerce" -> 1
      [] kind = "missing" -> 2
      [] kind = "dedup" -> 3
      [] kind = "outlier" -> 4
      [] kind = "consistency" -> 5
      [] kind = "normalize" -> 6
      [] OTHER -> 0

\* No stage of the sequence runs before a stage that precedes it.
InOrder(kinds) ==
    \A i, j \in 1..Len(kinds) : i < j => Rank(kinds[i]) <= Rank(kinds[j])

HasNamedColumns == fn = "clean_get_all_teams" => Has(columns, "full_name")

\* C10: cleaning a file with a header and no rows raises no error and writes
\* an empty table.
C10_EmptyInputCleansToEmpty ==
    (raw = <<>> /\ HasNamedColumns) =>
        /\ err = "none"
        /\ pc = "done" => csv_out = <<>>


\* The outlier loop began on the five weights 200, 205, 210, 215, 600, weight
\* being the only number column, and line 276 has printed its report.
WeightScenarioDone ==
    /\ fn = "clean_ACTIVE_PLAYERS"
    /\ pc = "a_format"
    /\ numeric_cols = <<"weight">>
    /\ Values(outlier_in, "weight") = <<200, 205, 210, 215, 600>>

\* C11: for weight = [200, 205, 210, 215, 600] the outlier loop computes
\* Q1 = 205, Q3 = 215, bounds [190, 230], removes the row with 600 and keeps
\* the other four, and reports 1 row removed, 20.0 % of the rows at entry.
C11_WeightScenario ==
    WeightScenarioDone =>
        LET vals == Values(outlier_in, "weight")
        IN  /\ Quantile4(vals, 1) = 4 * 205
            /\ Quantile4(vals, 3) = 4 * 215
            /\ LowerBound8(vals) = 8 * 190
            /\ UpperBound8(vals) = 8 * 230
            /\ df = SubSeq(outlier_in, 1, 4)
            /\ outlier_report = [removed |-> 1, pct10 |-> 200]

\* The scenario ran: four of the five rows are left.
C11_Witness ==
    /\ WeightScenarioDone
    /\ Len(outlier_in) = 5
    /\ Len(df) = 4
    /\ \A i \in 1..Len(df) : df[i]["weight"] # Num(600)


UnparsedCellRead ==
    /\ fn = "clean_advanced_team_stats"
    /\ run = 1
    /\ \E i \in 1..Len(raw) : \E c \in {"GP", "W", "L"} : raw[i][c].k = "str"

\* C13: a cell that cannot be parsed as a number raises no error; it is
\* coerced to missing and its row is dropped, so the output of the function
\* holds neither a text nor a missing cell in the number columns.
C13_UnparsedCellResolved ==
    UnparsedCellRead =>
        /\ err = "none"
        /\ pc = "done" =>
              \A i \in 1..Len(csv_out) : \A c \in {"GP", "W", "L"} :
                  IsNum(csv_out[i][c])


\* A text formatting statement (.str.strip().str.title()) has just run.
AfterTextFormat ==
    \/ fn = "clean_ACTIVE_PLAYERS" /\ pc = After(fn, "a_format")
    \/ fn = "clean_get_all_teams" /\ pc = After(fn, "t_format")
    \/ fn = "clean_league_standings" /\ pc = After(fn, "s_format")

\* The columns the text formatting statement of the function formats.
FormattedCols ==
    CASE fn = "clean_ACTIVE_PLAYERS" -> Range(categorical_cols)
      [] fn = "clean_get_all_teams" -> {"full_name"}
      [] OTHER -> Range(StandingsTextCols) \cap Range(columns)

\* C14: coercion is idempotent: applying strip-then-title to the columns it
\* has just formatted, the TEAM_NAME trim to the table it has just trimmed,
\* or the numeric parse to the table it has just parsed, changes no cell.
C14_CoercionIdempotent ==
    /\ AfterTextFormat => StripTitleCols(df, FormattedCols) = df
    /\ (fn = "clean_advanced_team_stats" /\ pc = After(fn, "v_strip"))
          => StripTeamName(df, columns) = df
    /\ (fn = "clean_advanced_team_stats" /\ pc = After(fn, "v_to_numeric"))
          => CoerceNumeric(df, columns) = df

\* The formatting changed a name (" Al" or "al" became "Al"), and a second
\* application leaves the table as it is.
C14_Witness ==
    /\ AfterTextFormat
    /\ fn = "clean_ACTIVE_PLAYERS"
    /\ \E i \in 1..Len(df) :
          /\ stage_in[i]["first_name"] # df[i]["first_name"]
          /\ df[i]["first_name"] = Str(<<"A", "l">>)
    /\ StripTitleCols(df, FormattedCols) = df


\* The columns the running function refers to by name.
NamedColumns ==
    CASE fn = "clean_ACTIVE_PLAYERS" -> {"first_name", "last_name"}
      [] fn = "clean_get_all_teams" -> {"full_name"}
      [] fn = "clean_advanced_team_stats" ->
            Range(columns_to_keep) \cup Range(AdvNumericCols)
      [] OTHER ->
            Range(clinch_cols) \cup Range(StandingsTextCols)
                \cup {"WinPCT", "PointsPG"}

\* C15: a step that names a column the table does not have is skipped: no
\* error is raised for the absent column and the remaining statements run.
C15_AbsentColumnSkipped ==
    (NamedColumns \ Range(columns) # {}) => err # "KeyError"


\* The rows of the file read by clean_advanced_team_stats that have a value
\* in every selected column (a cell that is not a number counting as no value
\* in a number column).
CompleteRows ==
    LET sel == Range(ExistingCols(columns))
    IN  {i \in 1..Len(raw) :
            \A c \in sel :
                /\ ~IsNa(raw[i][c])
                /\ c \in Range(AdvNumericCols) => IsNum(raw[i][c])}

\* C16: the rows dropped for a missing value are exactly the rows with no
\* value in one of the triggering columns: first_name or last_name in
\* clean_ACTIVE_PLAYERS, any selected column in clean_advanced_team_stats.
C16_DroppedIffMissingInTrigger ==
    /\ (fn = "clean_ACTIVE_PLAYERS" /\ pc = After(fn, "a_dropna")) =>
          df = SelectSeq(stage_in, LAMBDA r :
                   ~IsNa(r["first_name"]) /\ ~IsNa(r["last_name"]))
    /\ (fn = "clean_advanced_team_stats" /\ pc = After(fn, "v_dropna")
            /\ run = 1) =>
          Len(df) = Cardinality(CompleteRows)


\* A table that has been through the documented steps of
\* clean_advanced_team_stats: selected columns only, numbers in the number
\* columns, GP > 0.
CleanedAdvanced(t) ==
    \A i \in 1..Len(t) :
        /\ DOMAIN t[i] \subseteq Range(columns_to_keep)
        /\ \A c \in DOMAIN t[i] \cap Range(AdvNumericCols) : IsNum(t[i][c])
        /\ "GP" \in DOMAIN t[i] => t[i]["GP"].n > 0

\* C17: when clean_advanced_team_stats has returned, its output file holds
\* the result of the documented steps: selected columns only, no missing or
\* non-numeric value in the number columns, GP > 0 in every row.
C17_OutputIsCleaned ==
    (fn = "clean_advanced_team_stats" /\ pc = "done") =>
        CleanedAdvanced(csv_out)


\* C18: the output of clean_get_all_teams holds no two identical rows.
C18_TeamsOutputHasNoDuplicates ==
    (fn = "clean_get_all_teams" /\ pc = "done") =>
        \A i, j \in 1..Len(csv_out) : csv_out[i] = csv_out[j] => i = j


\* How many rows of table t hold the number v in column c.
Occurrences(t, c, v) == Cardinality({i \in 1..Len(t) : t[i][c] = Num(v)})

\* C19: the mode reported for each column is a most frequent value of that
\* column, and the smallest of them when several values are tied, whatever
\* the other columns hold.
C19_ModeIsSmallestMostFrequent ==
    (fn = "calculate_descriptive_stats" /\ stats_mode # <<>>) =>
        \A c \in Range(numeric_cols) :
            LET present == {raw[i][c].n : i \in {j \in 1..Len(raw) : IsNum(raw[j][c])}}
            IN  present # {} =>
                    \E m \in present :
                        /\ stats_mode[c] = Num(m)
                        /\ \A w \in present :
                              /\ Occurrences(raw, c, w) <= Occurrences(raw, c, m)
                              /\ Occurrences(raw, c, w) = Occurrences(raw, c, m)
                                    => m <= w

\* weight is 8, 0 (a tie, the larger value first) and height_in is 2, 2: the
\* modes are 0 and 2.
C19_Witness ==
    /\ fn = "calculate_descriptive_stats"
    /\ pc = "done"
    /\ Len(raw) = 2
    /\ raw[1]["weight"] = Num(8) /\ raw[2]["weight"] = Num(0)
    /\ raw[1]["height_in"] = Num(2) /\ raw[2]["height_in"] = Num(2)
    /\ stats_mode["weight"] = Num(0)
    /\ stats_mode["height_in"] = Num(2)

\* C20: calculate_descriptive_stats leaves the table it is given unchanged:
\* the same object with the same rows in the same order, the same values and
\* the same columns, whatever outliers it finds.
C20_DetectionIsReadOnly ==
    fn = "calculate_descriptive_stats" =>
        /\ df = raw
        /\ passed_in = raw
        /\ df_obj = 1
        /\ \A i \in 1..Len(df) : DOMAIN df[i] = Range(StatsColumns)

\* The function returned having found an outlier in weight (0, 0, 0, 8), and
\* the row that holds it is still in the table.
C20_Witness ==
    /\ fn = "calculate_descriptive_stats"
    /\ pc = "done"
    /\ "weight" \in DOMAIN insights
    /\ insights["weight"].outlier_count = 1
    /\ insights["weight"].outlier_values = <<Num(8)>>
    /\ \E i \in 1..Len(df) : df[i]["weight"] = Num(8)
    /\ df = raw


StatsReturned == fn = "calculate_descriptive_stats" /\ pc = "done"

\* Column c of the table given to calculate_descriptive_stats has a number
\* in every row.
CompleteColumn(c) == \A i \in 1..Len(raw) : IsNum(raw[i][c])

\* C21: for a column with no missing value, the rows the statistics count as
\* outliers are exactly the rows the outlier filter of the cleaning removes
\* when it runs on that column alone, so no row the filter keeps lies outside
\* the bounds of the table as it was given.
C21_DetectionMatchesFilter ==
    StatsReturned =>
        \A c \in Range(numeric_cols) :
            CompleteColumn(c) =>
                LET kept == OutlierColumn(raw, c)
                    flagged == Outliers(raw, c)
                    vals == Values(raw, c)
                IN  /\ insights[c].outlier_count = Len(flagged)
                    /\ kept = SelectSeq(raw, LAMBDA r : r[c] \notin Range(flagged))
                    /\ Len(kept) + insights[c].outlier_count = Len(raw)
                    /\ \A i \in 1..Len(kept) :
                          /\ 8 * kept[i][c].n >= LowerBound8(vals)
                          /\ 8 * kept[i][c].n <= UpperBound8(vals)

\* Twelve of 25 weights were counted as outliers, and the filter keeps the
\* other thirteen rows.
C21_Witness ==
    /\ StatsReturned
    /\ CompleteColumn("weight")
    /\ Len(raw) = 25
    /\ insights["weight"].outlier_count = 12
    /\ Len(OutlierColumn(raw, "weight")) = 13

\* The positions of the rows of t whose value in c lies strictly outside the
\* IQR bounds of the column.
OutsideBounds(t, c) ==
    LET vals == Values(t, c)
    IN  {i \in 1..Len(t) :
            /\ vals # <<>>
            /\ IsNum(t[i][c])
            /\ \/ 8 * t[i][c].n < LowerBound8(vals)
               \/ 8 * t[i][c].n > UpperBound8(vals)}

\* C22: for each column, outlier_count is the number of rows strictly
\* outside the column's IQR bounds, outlier_pct is outlier_count over the
\* number of rows times 100 (here to the nearest tenth), and outlier_values
\* holds the values of the first min(10, outlier_count) such rows in table
\* order, never more than 10.
C22_OutlierSummary ==
    StatsReturned =>
        \A c \in Range(numeric_cols) :
            LET out == OutsideBounds(raw, c)
                rep == insights[c]
                n == IF Cardinality(out) < 10 THEN Cardinality(out) ELSE 10
            IN  /\ rep.outlier_count = Cardinality(out)
                /\ 2 * (rep.outlier_pct10 * Len(raw) - 1000 * rep.outlier_count)
                      <= Len(raw)
                /\ 2 * (1000 * rep.outlier_count - rep.outlier_pct10 * Len(raw))
                      <= Len(raw)
                /\ Len(rep.outlier_values) = n
                /\ Len(rep.outlier_values) <= 10
                /\ \A k \in 1..n : rep.outlier_values[k] = raw[Nth(out, k)][c]

\* Twelve outliers were found in mixed order: the first ten are listed.
C22_Witness ==
    /\ StatsReturned
    /\ insights["weight"].outlier_count = 12
    /\ insights["weight"].outlier_pct10 = 480
    /\ insights["weight"].outlier_values =
          <<Num(101), Num(-101), Num(102), Num(-102), Num(103), Num(-103),
            Num(104), Num(-104), Num(105), Num(-105)>>


\* C23: a column with no variance has an undefined correlation with W, and
\* what the function reports for it stays apart from a number: it is not
\* given a strength and a direction such as "Weak negative".
C23_UndefinedCorrelationKeptApart ==
    (fn = "analyze_team_performance" /\ pc = "done") =>
        \A m \in DOMAIN key_correlations :
            (\A i, j \in 1..Len(df) : df[i][m] = df[j][m]) =>
                /\ IsNa(key_correlations[m].corr_value)
                /\ key_correlations[m].strength
                      \notin {"Very Strong", "Strong", "Moderate", "Weak"}
                /\ key_correlations[m].direction
                      \notin {"positive", "negative"}


\* numeric_cols and categorical_cols of clean_ACTIVE_PLAYERS are both set.
ColumnsClassified ==
    fn = "clean_ACTIVE_PLAYERS" /\ pc = After(fn, "a_fill_categorical")

\* Every non-missing cell of column c of the file is a number.
AllValuesNumbers(c) == \A i \in 1..Len(raw) : IsNa(raw[i][c]) \/ IsNum(raw[i][c])

\* The two sets are disjoint and together hold every column.
ColumnsPartitioned ==
    /\ Range(numeric_cols) \cap Range(categorical_cols) = {}
    /\ Range(numeric_cols) \cup Range(categorical_cols) = Range(columns)

StandingsDone == fn = "clean_league_standings" /\ pc = "done"

WinPctInRange(c) == IsNum(c) /\ c.n >= WinPctMin /\ c.n <= WinPctMax

PointsPGInRange(c) == IsNum(c) /\ c.n > PointsPGMin /\ c.n < PointsPGMax

\* The input rows that pass both range checks: a row whose two cells are in
\* range, and a row whose empty WinPCT was filled with 0.
PassingRows ==
    SelectSeq(raw, LAMBDA r :
        /\ IsNa(r["WinPCT"]) \/ WinPctInRange(r["WinPCT"])
        /\ PointsPGInRange(r["PointsPG"]))

\* C25: every row of the output of clean_league_standings has
\* 0.0 <= WinPCT <= 1.0 and 60 < PointsPG < 160; every input row satisfying
\* both conditions is kept, in order, and the rows removed are exactly those
\* failing one of the two range checks.
C25_RangeChecksOnly ==
    StandingsDone =>
        /\ \A i \in 1..Len(csv_out) :
              /\ WinPctInRange(csv_out[i]["WinPCT"])
              /\ PointsPGInRange(csv_out[i]["PointsPG"])
        /\ Len(csv_out) = Len(PassingRows)
        /\ \A i \in 1..Len(csv_out) :
              /\ csv_out[i]["PointsPG"] = PassingRows[i]["PointsPG"]
              /\ IsNum(PassingRows[i]["WinPCT"]) =>
                    csv_out[i]["WinPCT"] = PassingRows[i]["WinPCT"]
        /\ \A i \in 1..Len(raw) :
              (WinPctInRange(raw[i]["WinPCT"]) /\ PointsPGInRange(raw[i]["PointsPG"]))
                  => \E j \in 1..Len(PassingRows) : PassingRows[j] = raw[i]

\* A row with WinPCT 1.2 is removed and a row in both ranges is written.
C25_Witness ==
    /\ StandingsDone
    /\ Len(csv_out) = 1
    /\ Len(raw) = 2
    /\ \E i \in 1..2 : raw[i]["WinPCT"] = Num(12)


\* C26: row accounting of a run.  No stage adds a row (the table a statement
\* leaves has at most the rows of the table it was given, so rows-out is
\* rows-in minus the rows the stages removed), the output has at most the
\* rows of the input, and the outlier report of clean_ACTIVE_PLAYERS holds
\* rows at entry minus rows at exit and that difference as a percentage of
\* the rows at entry.
C26_RowAccounting ==
    /\ Len(df) <= Len(stage_in)
    /\ pc = "done" => Len(csv_out) <= Len(raw)
    /\ (fn = "clean_ACTIVE_PLAYERS" /\ pc = "a_format") =>
          /\ outlier_report.removed = Len(outlier_in) - Len(df)
          /\ outlier_report.pct10 =
                Pct10(Len(outlier_in) - Len(df), Len(outlier_in))


\* A cleaner has failed while clean_data still has cleaners to call.
CleanerFailed == pc = "raised" /\ CallIndex < Len(CleanDataCalls)

\* C27: a failure of one cleaner does not prevent the remaining cleaners from
\* running: when a cleaner has raised and cleaners remain, clean_data goes on
\* to the next cleaner.
C27_FailureIsContained ==
    CleanerFailed =>
        ENABLED (/\ fn' = CleanDataCalls[CallIndex + 1]
                 /\ pc' = FirstStatement(fn')
                 /\ NextCleanData)


\* C28: calculate_descriptive_stats raises for no table, a table with no rows
\* and a column of missing values included; for a table with no rows it
\* returns an outlier count of 0 for every column.
C28_StatsNeverRaise ==
    fn = "calculate_descriptive_stats" =>
        /\ err = "none"
        /\ pc # "raised"
        /\ (StatsReturned /\ df = <<>>) =>
              \A c \in Range(numeric_cols) :
                  c \in DOMAIN insights /\ insights[c].outlier_count = 0


\* GP, W and L of row r are present numbers.
GamesPresent(r) == IsNum(r["GP"]) /\ IsNum(r["W"]) /\ IsNum(r["L"])

\* The rows of the file with GP, W and L present numbers and GP > 0.
GamesRows == SelectSeq(raw, LAMBDA r : GamesPresent(r) /\ r["GP"].n > 0)

\* C29: in clean_advanced_team_stats the rules GP > 0 and W + L == GP are
\* applied after the coercion and the dropna, so they are evaluated on rows
\* whose GP, W and L are present numbers; the count of W + L violations is
\* taken over exactly the rows that survive the GP > 0 filter.
C29_RulesAfterCoercionAndDropna ==
    fn = "clean_advanced_team_stats" =>
        /\ pc \in {"v_filter_gp", "v_check_wl"} =>
              /\ trace = <<"select", "coerce", "coerce", "missing">>
                 \/ trace = <<"select", "coerce", "coerce", "missing",
                              "consistency">>
              /\ \A i \in 1..Len(df) : GamesPresent(df[i])
        /\ pc = After(fn, "v_check_wl") =>
              /\ Len(stage_in) = Len(GamesRows)
              /\ \A i \in 1..Len(stage_in) :
                    \A c \in {"GP", "W", "L"} : stage_in[i][c] = GamesRows[i][c]
              /\ invalid_count =
                    Len(SelectSeq(GamesRows, LAMBDA r :
                            r["W"].n + r["L"].n # r["GP"].n))

\* A file with a row that has a text in W and no L, a row with GP 0 and a
\* row with W + L # GP: the count is 1, taken over the one row that survives.
C29_Witness ==
    /\ fn = "clean_advanced_team_stats"
    /\ pc = After(fn, "v_check_wl")
    /\ Len(raw) = 3
    /\ \E i \in 1..3 : raw[i]["GP"] = Num(0)
    /\ \E i \in 1..3 : raw[i]["W"].k = "str"
    /\ Len(df) = 1
    /\ invalid_count = 1


HeightReturned == fn = "height_to_inches" /\ pc = "done"

\* Text t is '<feet>-<inches>': one "-", at position k, between two integers.
FeetInchesAt(t, k) ==
    /\ t[k] = "-"
    /\ \A j \in 1..Len(t) : t[j] = "-" => j = k
    /\ IntParses(SubSeq(t, 1, k - 1))
    /\ IntParses(SubSeq(t, k + 1, Len(t)))

\* C30: height_to_inches never raises; it returns feet * 12 + inches for a
\* text '<feet>-<inches>' with both parts integers, a number unchanged, and
\* None for every other input: a missing value, a text without "-", with
\* more than one "-", or with a part that is not an integer.
C30_HeightToInches ==
    fn = "height_to_inches" =>
        /\ err = "none" /\ pc # "raised"
        /\ HeightReturned =>
              /\ IsNa(height) => height_in = NaN
              /\ IsNum(height) => height_in = height
              /\ height.k = "str" =>
                    \/ \E k \in 1..Len(height.s) :
                          /\ FeetInchesAt(height.s, k)
                          /\ height_in =
                                Num(IntOf(SubSeq(height.s, 1, k - 1)) * 12
                                    + IntOf(SubSeq(height.s, k + 1,
                                                   Len(height.s))))
                    \/ /\ \A k \in 1..Len(height.s) :
                             ~FeetInchesAt(height.s, k)
                       /\ height_in = NaN

\* '6-2' gives 74.
C30_Witness ==
    /\ HeightReturned
    /\ height = Str(<<"6", "-", "2">>)
    /\ height_in = Num(74)

====
